---- MODULE Spec2Model ----
(***************************************************************************)
(* A model of createRTCPeerConnectionSource                                *)
(* (plugins/webrtc/src/wrtc-to-rtsp.ts): the WebRTC -> RTSP bridge.        *)
(*                                                                         *)
(* The program runs on the single-threaded JavaScript event loop.  The     *)
(* model keeps that loop: every promise reaction (a .then callback, the    *)
(* code after an await) is a job in the FIFO microtask queue mq; an event  *)
(* of the outside world (a socket event, a peer connection event, a        *)
(* packet, a timer tick, a call of the signaling channel or of the         *)
(* intercom's holder, the completion of an external operation) is a        *)
(* macrotask and runs only when mq is empty.                               *)
(***************************************************************************)
EXTENDS Integers, Sequences, FiniteSets, TLC

\* ------------------------------------------------------------------ bounds
MaxSignalingCalls == 3  \* calls the signaling channel makes on the session
MaxSections == 3        \* media sections of a session description
MaxTracks == 2          \* onTrack events
MaxPackets == 2         \* inbound RTP/RTCP packets
MaxTicks == 2           \* ticks of the keyframe timers
MaxStartCalls == 2      \* startIntercom calls of the intercom's holder
MaxStopCalls == 2       \* stopIntercom calls of the intercom's holder

VARIABLES
  \* the event loop
  prom,           \* state of each shared promise: pending | resolved | rejected
  waiters,        \* reactions registered on each pending promise, in order
  mq,             \* the microtask queue
  \* the sink's client socket (clientPromise of listenZeroSingleClient)
  socket,         \* pending | open | destroyed | closed
  closeListener,  \* socket.on('close', cleanup) is registered
  \* the start task (lines 48-267)
  startAt,        \* client | signaling | pc | connected | done | failed
  sessionGiven,   \* the SignalingSession was handed to the channel (line 219)
  track,          \* line 226: "unset", or "yes"/"no": sender.sendRtp is truthy
  \* the teardown effects
  fx,             \* how often each effect of cleanup was performed
  cleanups,       \* how often the body of cleanup ran
  \* the peer connection (werift)
  pcState,        \* none | new | connected | closed
  pcCreated,      \* RTCPeerConnection objects constructed
  pcLocal,        \* type of the local description applied: none | offer | answer
  pcRemote,       \* type of the remote description applied
  iceGathering,   \* new | complete
  closedSubs,     \* reactions on the promises waitClosed(pc) returned
  \* doSetup
  xcvrs,          \* per doSetup run, whether its audio sender can send
  audioTransceiver, \* line 74: 0 (undefined) or the index of the doSetup run
  \* the sink (RtspServer) and the track bindings
  sdp,            \* rtspServer.sdp: <<>> (unassigned) or the sections
  audioTrack,     \* line 72: 0 (undefined) or a control
  videoTrack,     \* line 73
  playbacks,      \* calls of rtspServer.handlePlayback
  playbackStarted, \* line 148: completed awaits of handlePlayback
  \* the signaling calls (one at a time)
  call,           \* the current or last call of the channel on the session
  ncalls,         \* calls made so far
  \* the media relay and the keyframe requester
  tracks,         \* the tracks onTrack announced
  timers,         \* the keyframe timers (setInterval)
  recvLog,        \* packets received from the peer connection
  sinkLog,        \* units handed to rtspServer.sendTrack
  firLog,         \* full intra requests sent
  \* the intercom
  icCalls,        \* the startIntercom calls
  procs,          \* forwarder processes spawned so far
  alive,          \* forwarder processes alive
  destroyProcess, \* line 224: 0 (undefined) or the process it kills
  kills,          \* how often each process's kill function was invoked
  playback,       \* audio flag of the last setPlayback: "none", "on", "off"
  playbackMsgs,   \* setPlayback messages sent to session control
  stopRuns,       \* how often the body of stopIntercom ran
  nstops          \* stopIntercom calls of the intercom's holder

loopVars == <<prom, waiters, mq>>
sockVars == <<socket, closeListener>>
startVars == <<startAt, sessionGiven, track>>
tearVars == <<fx, cleanups>>
peerVars == <<pcState, pcCreated, pcLocal, pcRemote, iceGathering, closedSubs>>
setupVars == <<xcvrs, audioTransceiver>>
sinkVars == <<sdp, audioTrack, videoTrack, playbacks, playbackStarted>>
sigVars == <<call, ncalls>>
mediaVars == <<tracks, timers, recvLog, sinkLog, firLog>>
icVars == <<icCalls, procs, alive, destroyProcess, kills, playback,
            playbackMsgs, stopRuns, nstops>>
vars == <<loopVars, sockVars, startVars, tearVars, peerVars, setupVars,
          sinkVars, sigVars, mediaVars, icVars>>

\* --------------------------------------------------------- the event loop
Promises == {"client", "sessionControl", "peerConnection", "intercom",
             "start", "pcClose"}

\* A reaction: the label of the code to run and one argument.
K(l, a) == [k |-> l, a |-> a]

\* The loop state an action starts from: an event of the outside world ...
Cur == [p |-> prom, w |-> waiters, q |-> mq]
\* ... and a microtask, which first leaves the queue.
Base == [p |-> prom, w |-> waiters, q |-> Tail(mq)]

SetLoop(ls) == /\ prom' = ls.p
               /\ waiters' = ls.w
               /\ mq' = ls.q

\* promise.then(reaction) and await promise: the reaction is queued at once
\* when the promise is settled and waits for the settlement otherwise.
Then(ls, p, k) ==
  IF ls.p[p] = "pending"
    THEN [ls EXCEPT !.w[p] = Append(@, k)]
    ELSE [ls EXCEPT !.q = Append(@, k)]

\* Settling a promise queues its reactions in registration order; settling a
\* settled promise changes nothing (Deferred.resolve / Deferred.reject).
Settle(ls, p, st) ==
  IF ls.p[p] # "pending"
    THEN ls
    ELSE [p |-> [ls.p EXCEPT ![p] = st],
          w |-> [ls.w EXCEPT ![p] = <<>>],
          q |-> ls.q \o ls.w[p]]

\* Deferred.finished
finished(p) == prom[p] # "pending"

\* ------------------------------------------------------------ construction
\* Lines 30-296 run synchronously once listenZeroSingleClient has returned:
\* the reactions they register, in source order.
Init ==
  /\ prom = [p \in Promises |-> "pending"]
  /\ waiters = [p \in Promises |->
       CASE p = "client" -> <<K("regClose", 0), K("start1", 0)>>
         [] p = "start" -> <<K("startCatch", 0)>>
         [] p = "peerConnection" -> <<K("pcClose1", 0), K("pcCatch", 0)>>
         [] p = "pcClose" -> <<K("finally", 0)>>
         [] OTHER -> <<>>]
  /\ mq = <<>>
  /\ socket = "pending"
  /\ closeListener = FALSE
  /\ startAt = "client"
  /\ sessionGiven = FALSE
  /\ track = "unset"
  /\ fx = [destroy |-> 0, endSession |-> 0, close |-> 0, stopIntercom |-> 0]
  /\ cleanups = 0
  /\ pcState = "none"
  /\ pcCreated = 0
  /\ pcLocal = "none"
  /\ pcRemote = "none"
  /\ iceGathering = "new"
  /\ closedSubs = <<>>
  /\ xcvrs = <<>>
  /\ audioTransceiver = 0
  /\ sdp = <<>>
  /\ audioTrack = 0
  /\ videoTrack = 0
  /\ playbacks = 0
  /\ playbackStarted = 0
  /\ call = [op |-> "none", type |-> "none", trickle |-> FALSE,
             at |-> "idle", gathered |-> FALSE]
  /\ ncalls = 0
  /\ tracks = <<>>
  /\ timers = <<>>
  /\ recvLog = <<>>
  /\ sinkLog = <<>>
  /\ firLog = <<>>
  /\ icCalls = <<>>
  /\ procs = 0
  /\ alive = {}
  /\ destroyProcess = 0
  /\ kills = <<>>
  /\ playback = "none"
  /\ playbackMsgs = 0
  /\ stopRuns = 0
  /\ nstops = 0

\* ----------------------------------------------------------------- cleanup
\* A cleanup that releases only what exists when it runs: it registers no
\* reaction on a promise that is still pending.
cleanupSettledOnly(ls) ==
  LET ThenIfSettled(l, p, k) == IF l.p[p] = "pending" THEN l ELSE Then(l, p, k)
  IN  ThenIfSettled(
        ThenIfSettled(
          ThenIfSettled(
            ThenIfSettled(ls, "client", K("cDestroy", 0)),
            "sessionControl", K("cEnd", 0)),
          "peerConnection", K("cClose", 0)),
        "intercom", K("cStop", 0))

\* Lines 38-44: four reactions, each on its own promise.
cleanup(ls) ==
  Then(Then(Then(Then(ls, "client", K("cDestroy", 0)),
                 "sessionControl", K("cEnd", 0)),
            "peerConnection", K("cClose", 0)),
       "intercom", K("cStop", 0))

\* The peer connection's state becomes closed: the promises waitClosed(pc)
\* returned resolve, in subscription order.
Closing(ls) == [ls EXCEPT !.q = @ \o closedSubs]

\* A microtask runs when it is at the head of the queue; an event of the
\* outside world is handled when no microtask is left.
Job(l) == mq # <<>> /\ Head(mq).k = l
Idle == mq = <<>>

\* --------------------------------------------------------- the sink socket
\* A client connects to the listening socket: clientPromise resolves.
ClientConnect ==
  /\ Idle /\ socket = "pending"
  /\ socket' = "open"
  /\ SetLoop(Settle(Cur, "client", "resolved"))
  /\ UNCHANGED <<closeListener, startVars, tearVars, peerVars, setupVars,
                 sinkVars, sigVars, mediaVars, icVars>>

\* No client connects in time: clientPromise rejects.
ClientTimeout ==
  /\ Idle /\ socket = "pending"
  /\ socket' = "failed"
  /\ SetLoop(Settle(Cur, "client", "rejected"))
  /\ UNCHANGED <<closeListener, startVars, tearVars, peerVars, setupVars,
                 sinkVars, sigVars, mediaVars, icVars>>

\* Line 46: clientPromise.then(socket => socket.on('close', cleanup))
RegClose ==
  /\ Job("regClose")
  /\ closeListener' = (prom["client"] = "resolved")
  /\ SetLoop(Base)
  /\ UNCHANGED <<socket, startVars, tearVars, peerVars, setupVars, sinkVars,
                 sigVars, mediaVars, icVars>>

\* The socket's 'close' event (the client went away, or destroy() was called
\* before): the listener of line 46 runs cleanup.
SocketClose ==
  /\ Idle /\ socket \in {"open", "destroyed"}
  /\ socket' = "closed"
  /\ IF closeListener
       THEN /\ SetLoop(cleanup(Cur))
            /\ cleanups' = cleanups + 1
       ELSE /\ SetLoop(Cur)
            /\ UNCHANGED cleanups
  /\ UNCHANGED <<closeListener, startVars, fx, peerVars, setupVars, sinkVars,
                 sigVars, mediaVars, icVars>>

\* Line 40: client => client.destroy()
CleanupDestroy ==
  /\ Job("cDestroy")
  /\ SetLoop(Base)
  /\ IF prom["client"] = "resolved"
       THEN /\ fx' = [fx EXCEPT !.destroy = @ + 1]
            /\ socket' = IF socket = "open" THEN "destroyed" ELSE socket
       ELSE UNCHANGED <<fx, socket>>
  /\ UNCHANGED <<closeListener, startVars, cleanups, peerVars, setupVars,
                 sinkVars, sigVars, mediaVars, icVars>>

\* Line 41: sc => sc.endSession()
CleanupEndSession ==
  /\ Job("cEnd")
  /\ SetLoop(Base)
  /\ fx' = IF prom["sessionControl"] = "resolved"
             THEN [fx EXCEPT !.endSession = @ + 1] ELSE fx
  /\ UNCHANGED <<sockVars, startVars, cleanups, peerVars, setupVars, sinkVars,
                 sigVars, mediaVars, icVars>>

\* Line 42: pc => pc.close()
CleanupClose ==
  /\ Job("cClose")
  /\ IF prom["peerConnection"] = "resolved"
       THEN /\ fx' = [fx EXCEPT !.close = @ + 1]
            /\ IF pcState \in {"new", "connected"}
                 THEN /\ pcState' = "closed"
                      /\ closedSubs' = <<>>
                      /\ SetLoop(Closing(Base))
                 ELSE /\ SetLoop(Base)
                      /\ UNCHANGED <<pcState, closedSubs>>
       ELSE /\ SetLoop(Base)
            /\ UNCHANGED <<fx, pcState, closedSubs>>
  /\ UNCHANGED <<sockVars, startVars, cleanups, pcCreated, pcLocal, pcRemote,
                 iceGathering, setupVars, sinkVars, sigVars, mediaVars, icVars>>

\* Line 276: pcClose = peerConnection.promise.then(pc => waitClosed(pc))
PcClose1 ==
  /\ Job("pcClose1")
  /\ IF prom["peerConnection"] = "resolved"
       THEN /\ closedSubs' = Append(closedSubs, K("pcCloseSettle", 0))
            /\ SetLoop(Base)
       ELSE /\ SetLoop(Settle(Base, "pcClose", "rejected"))
            /\ UNCHANGED closedSubs
  /\ UNCHANGED <<sockVars, startVars, tearVars, pcState, pcCreated, pcLocal,
                 pcRemote, iceGathering, setupVars, sinkVars, sigVars,
                 mediaVars, icVars>>

\* The promise of waitClosed(pc) resolved: pcClose resolves with it.
PcCloseSettle ==
  /\ Job("pcCloseSettle")
  /\ SetLoop(Settle(Base, "pcClose", "resolved"))
  /\ UNCHANGED <<sockVars, startVars, tearVars, peerVars, setupVars, sinkVars,
                 sigVars, mediaVars, icVars>>

\* Line 277: pcClose.finally(cleanup)
PcCloseFinally ==
  /\ Job("finally")
  /\ SetLoop(cleanup(Base))
  /\ cleanups' = cleanups + 1
  /\ UNCHANGED <<sockVars, startVars, fx, peerVars, setupVars, sinkVars,
                 sigVars, mediaVars, icVars>>

\* Lines 279-282: peerConnection.promise.catch(e => cleanup())
PcCatch ==
  /\ Job("pcCatch")
  /\ IF prom["peerConnection"] = "rejected"
       THEN /\ SetLoop(cleanup(Base))
            /\ cleanups' = cleanups + 1
       ELSE /\ SetLoop(Base)
            /\ UNCHANGED cleanups
  /\ UNCHANGED <<sockVars, startVars, fx, peerVars, setupVars, sinkVars,
                 sigVars, mediaVars, icVars>>

\* The peer connection closes from the other side (or its ICE transport
\* fails): its state changes and the promises of waitClosed resolve.
PeerClosed ==
  /\ Idle /\ pcState \in {"new", "connected"}
  /\ pcState' = "closed"
  /\ closedSubs' = <<>>
  /\ SetLoop(Closing(Cur))
  /\ UNCHANGED <<sockVars, startVars, tearVars, pcCreated, pcLocal, pcRemote,
                 iceGathering, setupVars, sinkVars, sigVars, mediaVars, icVars>>

\* ---------------------------------------------------------- the start task
\* Lines 49-219: the code after `await clientPromise`, up to the call of
\* channel.startRTCSignalingSession(session).
Start1 ==
  /\ Job("start1")
  /\ IF prom["client"] = "resolved"
       THEN /\ startAt' = "signaling"
            /\ sessionGiven' = TRUE
            /\ SetLoop(Base)
       ELSE /\ startAt' = "failed"
            /\ UNCHANGED sessionGiven
            /\ SetLoop(Settle(Base, "start", "rejected"))
  /\ UNCHANGED <<sockVars, track, tearVars, peerVars, setupVars, sinkVars,
                 sigVars, mediaVars, icVars>>

\* Lines 219-221: startRTCSignalingSession returned the session control.
SignalingReturns ==
  /\ Idle /\ startAt = "signaling"
  /\ startAt' = "pc"
  /\ SetLoop(Then(Settle(Cur, "sessionControl", "resolved"),
                  "peerConnection", K("start3", 0)))
  /\ UNCHANGED <<sockVars, sessionGiven, track, tearVars, peerVars, setupVars,
                 sinkVars, sigVars, mediaVars, icVars>>

\* Line 219: startRTCSignalingSession rejected.
SignalingFails ==
  /\ Idle /\ startAt = "signaling"
  /\ startAt' = "failed"
  /\ SetLoop(Settle(Cur, "start", "rejected"))
  /\ UNCHANGED <<sockVars, sessionGiven, track, tearVars, peerVars, setupVars,
                 sinkVars, sigVars, mediaVars, icVars>>

\* Lines 221-222: the code after `await peerConnection.promise`;
\* waitConnected(pc) is resolved at once when the connection is connected.
Start3 ==
  /\ Job("start3")
  /\ IF prom["peerConnection"] = "rejected"
       THEN /\ startAt' = "failed"
            /\ SetLoop(Settle(Base, "start", "rejected"))
       ELSE IF pcState = "connected"
         THEN /\ startAt' = "connected"
              /\ SetLoop([Base EXCEPT !.q = Append(@, K("start4", 0))])
         ELSE /\ startAt' = "connected"
              /\ SetLoop(Base)
  /\ UNCHANGED <<sockVars, sessionGiven, track, tearVars, peerVars, setupVars,
                 sinkVars, sigVars, mediaVars, icVars>>

\* The peer connection reaches the connected state (both descriptions are
\* applied): the promise of waitConnected resolves.
PeerConnected ==
  /\ Idle /\ pcState = "new"
  /\ {pcLocal, pcRemote} = {"offer", "answer"}
  /\ pcState' = "connected"
  /\ SetLoop(IF startAt = "connected"
               THEN [Cur EXCEPT !.q = Append(@, K("start4", 0))]
               ELSE Cur)
  /\ UNCHANGED <<sockVars, startVars, tearVars, pcCreated, pcLocal, pcRemote,
                 iceGathering, closedSubs, setupVars, sinkVars, sigVars,
                 mediaVars, icVars>>

\* Line 222: waitConnected(pc) rejects (the connection does not come up).
ConnectFails ==
  /\ Idle /\ startAt = "connected" /\ pcState # "connected"
  /\ startAt' = "failed"
  /\ SetLoop(Settle(Cur, "start", "rejected"))
  /\ UNCHANGED <<sockVars, sessionGiven, track, tearVars, peerVars, setupVars,
                 sinkVars, sigVars, mediaVars, icVars>>

\* Lines 224-266: the code after `await waitConnected(pc)`.  Reading
\* audioTransceiver.sender of an undefined audioTransceiver throws.
Start4 ==
  /\ Job("start4")
  /\ IF audioTransceiver = 0
       THEN /\ startAt' = "failed"
            /\ UNCHANGED track
            /\ SetLoop(Settle(Base, "start", "rejected"))
       ELSE /\ startAt' = "done"
            /\ track' = IF xcvrs[audioTransceiver] THEN "yes" ELSE "no"
            /\ SetLoop(Settle(Settle(Base, "intercom", "resolved"),
                               "start", "resolved"))
  /\ UNCHANGED <<sockVars, sessionGiven, tearVars, peerVars, setupVars,
                 sinkVars, sigVars, mediaVars, icVars>>

\* Lines 269-274: start.catch: the three Deferreds are rejected.
StartCatch ==
  /\ Job("startCatch")
  /\ SetLoop(IF prom["start"] = "rejected"
               THEN Settle(Settle(Settle(Base, "sessionControl", "rejected"),
                                  "peerConnection", "rejected"),
                           "intercom", "rejected")
               ELSE Base)
  /\ UNCHANGED <<sockVars, startVars, tearVars, peerVars, setupVars, sinkVars,
                 sigVars, mediaVars, icVars>>

\* ------------------------------------------------- session descriptions
\* A session description is modelled by its media sections: the sequence of
\* their types.  Section i carries the control attribute i.
MediaTypes == {"audio", "video", "application"}
Descriptions(n) == UNION {[1..m -> MediaTypes] : m \in 1..n}

\* createSdpInput(0, 0, sdp) rewrites the ports and the connection line and
\* keeps the media sections and their attributes.
createSdpInput(d) == d

\* parseSdp(sdp).msections
parseSdp(d) == [i \in 1..Len(d) |-> [type |-> d[i], control |-> i]]

\* A find that ignores the predicate and returns the first section.
findFirstSection(ms, t) == IF Len(ms) > 0 THEN 1 ELSE 0

\* msections.find(msection => msection.type === t): the first section of
\* that type, or 0 (undefined) when there is none.
find(ms, t) ==
  IF \E i \in 1..Len(ms) : ms[i].type = t
    THEN CHOOSE i \in 1..Len(ms) :
           /\ ms[i].type = t
           /\ \A j \in 1..(i - 1) : ms[j].type # t
    ELSE 0

\* A type check that lets every description through.
acceptsAnyType(type) == FALSE

\* Line 138: handleRtspSetup throws unless the description is an answer.
needsAnswer(type) == type # "answer"

\* A sink setup that goes on to handlePlayback without a video section.
handleRtspSetupWithoutVideo(type, d) ==
  LET ms == parseSdp(createSdpInput(d))
      a == find(ms, "audio")
      v == find(ms, "video")
  IN  IF needsAnswer(type) \/ a = 0
        THEN [ok |-> FALSE, sdp |-> sdp, audioTrack |-> audioTrack,
              videoTrack |-> videoTrack, playbacks |-> playbacks]
        ELSE [ok |-> TRUE, sdp |-> createSdpInput(d),
              audioTrack |-> ms[a].control,
              videoTrack |-> IF v = 0 THEN videoTrack ELSE ms[v].control,
              playbacks |-> playbacks + 1]

\* Lines 137-147, up to the await of rtspServer.handlePlayback(): the sink
\* state the call leaves, and whether it threw (.ok = FALSE).  Reading
\* .control of the undefined result of find throws; what was assigned before
\* stays assigned.
handleRtspSetup(type, d) ==
  LET ms == parseSdp(createSdpInput(d))
      a == find(ms, "audio")
      v == find(ms, "video")
  IN  IF needsAnswer(type)
        THEN [ok |-> FALSE, sdp |-> sdp, audioTrack |-> audioTrack,
              videoTrack |-> videoTrack, playbacks |-> playbacks]
      ELSE IF a = 0
        THEN [ok |-> FALSE, sdp |-> createSdpInput(d),
              audioTrack |-> audioTrack, videoTrack |-> videoTrack,
              playbacks |-> playbacks]
      ELSE IF v = 0
        THEN [ok |-> FALSE, sdp |-> createSdpInput(d),
              audioTrack |-> ms[a].control, videoTrack |-> videoTrack,
              playbacks |-> playbacks]
      ELSE [ok |-> TRUE, sdp |-> createSdpInput(d),
            audioTrack |-> ms[a].control, videoTrack |-> ms[v].control,
            playbacks |-> playbacks + 1]

SetSink(r) == /\ sdp' = r.sdp
              /\ audioTrack' = r.audioTrack
              /\ videoTrack' = r.videoTrack
              /\ playbacks' = r.playbacks
              /\ UNCHANGED playbackStarted

\* ------------------------------------------------------ the peer session
\* Lines 55-70: a peer connection is constructed unless the Deferred is
\* finished.
ensurePeerConnection(ls) ==
  IF ls.p["peerConnection"] # "pending"
    THEN ls
    ELSE Settle(ls, "peerConnection", "resolved")

\* An ensurePeerConnection without the check of line 56.
ConstructsAlways == TRUE

\* Lines 56-58: whether ensurePeerConnection constructs a peer connection.
Constructs == ~finished("peerConnection")

\* Lines 76-82: doSetup up to its `await peerConnection.promise`.
doSetup(ls) == Then(ensurePeerConnection(ls), "peerConnection", K("doSetup2", 0))

\* Lines 83-134: the code of doSetup after the await: the two transceivers
\* and the onTrack subscriptions.  Whether the audio sender can send is the
\* peer connection's choice.
DoSetup2 ==
  /\ Job("doSetup2")
  /\ SetLoop(Base)
  /\ IF prom["peerConnection"] = "resolved"
       THEN \E cap \in BOOLEAN :
              /\ xcvrs' = Append(xcvrs, cap)
              /\ audioTransceiver' = Len(xcvrs) + 1
       ELSE UNCHANGED <<xcvrs, audioTransceiver>>
  /\ UNCHANGED <<sockVars, startVars, tearVars, peerVars, sinkVars, sigVars,
                 mediaVars, icVars>>

\* -------------------------------------------------- the signaling session
\* The channel calls the session one call at a time.
CanCall ==
  /\ Idle /\ sessionGiven
  /\ call.at \in {"idle", "returned", "failed"}
  /\ ncalls < MaxSignalingCalls

\* A createLocalDescription that awaits the peer connection before it calls
\* doSetup.
createLocalDescriptionAwaitFirst(type, trickle) ==
  /\ CanCall
  /\ ncalls' = ncalls + 1
  /\ call' = [op |-> "cld", type |-> type, trickle |-> trickle,
              at |-> "awaitPc", gathered |-> FALSE]
  /\ IF type = "offer"
       THEN /\ SetLoop(doSetup(Then(Cur, "peerConnection", K("cld2", 0))))
            /\ pcState' = IF Constructs THEN "new" ELSE pcState
            /\ pcCreated' = IF Constructs THEN pcCreated + 1 ELSE pcCreated
       ELSE /\ SetLoop(Then(Cur, "peerConnection", K("cld2", 0)))
            /\ UNCHANGED <<pcState, pcCreated>>
  /\ UNCHANGED <<sockVars, startVars, tearVars, pcLocal, pcRemote,
                 iceGathering, closedSubs, setupVars, sinkVars, mediaVars,
                 icVars>>

\* Lines 156-159: createLocalDescription up to `await peerConnection.promise`.
createLocalDescription(type, trickle) ==
  /\ CanCall
  /\ ncalls' = ncalls + 1
  /\ call' = [op |-> "cld", type |-> type, trickle |-> trickle,
              at |-> "awaitPc", gathered |-> FALSE]
  /\ IF type = "offer"
       THEN /\ SetLoop(Then(doSetup(Cur), "peerConnection", K("cld2", 0)))
            /\ pcState' = IF Constructs THEN "new" ELSE pcState
            /\ pcCreated' = IF Constructs THEN pcCreated + 1 ELSE pcCreated
       ELSE /\ SetLoop(Then(Cur, "peerConnection", K("cld2", 0)))
            /\ UNCHANGED <<pcState, pcCreated>>
  /\ UNCHANGED <<sockVars, startVars, tearVars, pcLocal, pcRemote,
                 iceGathering, closedSubs, setupVars, sinkVars, mediaVars,
                 icVars>>

\* Lines 159-178 and 191: the code after the await: gatheringPromise is
\* resolved when gathering is already complete; then createAnswer or
\* createOffer is awaited.
Cld2 ==
  /\ Job("cld2")
  /\ SetLoop(Base)
  /\ call' = IF prom["peerConnection"] = "rejected"
               THEN [call EXCEPT !.at = "failed"]
               ELSE [call EXCEPT
                       !.gathered = (iceGathering = "complete"),
                       !.at = IF call.type = "answer"
                                THEN "createAnswer" ELSE "createOffer"]
  /\ UNCHANGED <<sockVars, startVars, tearVars, peerVars, setupVars, sinkVars,
                 ncalls, mediaVars, icVars>>

\* Lines 178-181: pc.createAnswer() returned an answer; handleRtspSetup runs
\* up to its await.
CreateAnswerDone(d) ==
  /\ Idle /\ call.at = "createAnswer" /\ pcRemote = "offer"
  /\ LET r == handleRtspSetup("answer", d)
     IN  /\ SetSink(r)
         /\ call' = [call EXCEPT
                       !.at = IF r.ok THEN "handlePlayback" ELSE "failed"]
  /\ UNCHANGED <<loopVars, sockVars, startVars, tearVars, peerVars, setupVars,
                 ncalls, mediaVars, icVars>>

\* Line 178: pc.createAnswer() throws when no remote offer is applied.
CreateAnswerFails ==
  /\ Idle /\ call.at = "createAnswer" /\ pcRemote # "offer"
  /\ call' = [call EXCEPT !.at = "failed"]
  /\ UNCHANGED <<loopVars, sockVars, startVars, tearVars, peerVars, setupVars,
                 sinkVars, ncalls, mediaVars, icVars>>

\* A setRemoteDescription that does not await handleRtspSetup: it goes on to
\* apply the description while the sink setup is still running, or has
\* thrown.
setRemoteDescriptionNoAwait(type, d) ==
  /\ CanCall
  /\ ncalls' = ncalls + 1
  /\ call' = [op |-> "srd", type |-> type, trickle |-> FALSE,
              at |-> "awaitPc", gathered |-> FALSE]
  /\ IF type = "offer"
       THEN /\ SetLoop(Then(doSetup(Cur), "peerConnection", K("srd2", 0)))
            /\ pcState' = IF Constructs THEN "new" ELSE pcState
            /\ pcCreated' = IF Constructs THEN pcCreated + 1 ELSE pcCreated
            /\ UNCHANGED sinkVars
       ELSE /\ SetSink(handleRtspSetup(type, d))
            /\ SetLoop(Then(Cur, "peerConnection", K("srd2", 0)))
            /\ UNCHANGED <<pcState, pcCreated>>
  /\ UNCHANGED <<sockVars, startVars, tearVars, pcLocal, pcRemote,
                 iceGathering, closedSubs, setupVars, mediaVars, icVars>>

\* Lines 202-208: setRemoteDescription up to its first await.
setRemoteDescription(type, d) ==
  /\ CanCall
  /\ ncalls' = ncalls + 1
  /\ IF type = "offer"
       THEN /\ SetLoop(Then(doSetup(Cur), "peerConnection", K("srd2", 0)))
            /\ pcState' = IF Constructs THEN "new" ELSE pcState
            /\ pcCreated' = IF Constructs THEN pcCreated + 1 ELSE pcCreated
            /\ call' = [op |-> "srd", type |-> type, trickle |-> FALSE,
                        at |-> "awaitPc", gathered |-> FALSE]
            /\ UNCHANGED sinkVars
       ELSE LET r == handleRtspSetup(type, d)
            IN  /\ SetSink(r)
                /\ call' = [op |-> "srd", type |-> type, trickle |-> FALSE,
                            at |-> IF r.ok THEN "handlePlayback" ELSE "failed",
                            gathered |-> FALSE]
                /\ UNCHANGED <<loopVars, pcState, pcCreated>>
  /\ UNCHANGED <<sockVars, startVars, tearVars, pcLocal, pcRemote,
                 iceGathering, closedSubs, setupVars, mediaVars, icVars>>

\* Lines 147-149 and what follows the `await handleRtspSetup(...)`:
\* line 182 (pc.setLocalDescription(answer) is started; with sendIceCandidate
\* the call returns), respectively line 208.
HandlePlaybackDone ==
  /\ Idle /\ call.at = "handlePlayback"
  /\ IF call.op = "cld"
       THEN /\ pcLocal' = "answer"
            /\ call' = [call EXCEPT
                          !.at = IF call.trickle THEN "returned" ELSE "setLocal"]
            /\ UNCHANGED loopVars
       ELSE /\ SetLoop(Then(Cur, "peerConnection", K("srd2", 0)))
            /\ call' = [call EXCEPT !.at = "awaitPc"]
            /\ UNCHANGED pcLocal
  /\ playbackStarted' = playbackStarted + 1
  /\ UNCHANGED <<sockVars, startVars, tearVars, pcState, pcCreated, pcRemote,
                 iceGathering, closedSubs, setupVars, sdp, audioTrack,
                 videoTrack, playbacks, ncalls, mediaVars, icVars>>

\* Lines 191-196: pc.createOffer() returned; pc.setLocalDescription(offer) is
\* started; with sendIceCandidate the call returns.
CreateOfferDone ==
  /\ Idle /\ call.at = "createOffer"
  /\ pcLocal' = "offer"
  /\ call' = [call EXCEPT
                !.at = IF call.trickle THEN "returned" ELSE "setLocal"]
  /\ UNCHANGED <<loopVars, sockVars, startVars, tearVars, pcState, pcCreated,
                 pcRemote, iceGathering, closedSubs, setupVars, sinkVars,
                 ncalls, mediaVars, icVars>>

\* A createLocalDescription that does not await gatheringPromise.
SetLocalDoneNoWait ==
  /\ Idle /\ call.at = "setLocal"
  /\ call' = [call EXCEPT !.at = "gathering"]
  /\ SetLoop([Cur EXCEPT !.q = Append(@, K("cld3", 0))])
  /\ UNCHANGED <<sockVars, startVars, tearVars, peerVars, setupVars, sinkVars,
                 ncalls, mediaVars, icVars>>

\* Lines 185-186 and 196-197: `await set` is over; `await gatheringPromise`.
SetLocalDone ==
  /\ Idle /\ call.at = "setLocal"
  /\ call' = [call EXCEPT !.at = "gathering"]
  /\ SetLoop(IF call.gathered
               THEN [Cur EXCEPT !.q = Append(@, K("cld3", 0))]
               ELSE Cur)
  /\ UNCHANGED <<sockVars, startVars, tearVars, peerVars, setupVars, sinkVars,
                 ncalls, mediaVars, icVars>>

\* The peer connection's iceGatheringState becomes complete: the subscriber
\* of line 163 resolves gatheringPromise.
GatheringComplete ==
  /\ Idle /\ pcLocal # "none" /\ iceGathering = "new"
  /\ iceGathering' = "complete"
  /\ LET subscribed == /\ call.op = "cld"
                       /\ call.at \in {"createAnswer", "createOffer",
                                       "handlePlayback", "setLocal", "gathering"}
                       /\ ~call.gathered
     IN  /\ call' = IF subscribed THEN [call EXCEPT !.gathered = TRUE] ELSE call
         /\ SetLoop(IF subscribed /\ call.at = "gathering"
                      THEN [Cur EXCEPT !.q = Append(@, K("cld3", 0))]
                      ELSE Cur)
  /\ UNCHANGED <<sockVars, startVars, tearVars, pcState, pcCreated, pcLocal,
                 pcRemote, closedSubs, setupVars, sinkVars, ncalls, mediaVars,
                 icVars>>

\* Lines 187-188 and 198: after `await gatheringPromise`.
Cld3 ==
  /\ Job("cld3")
  /\ SetLoop(Base)
  /\ call' = [call EXCEPT
                !.at = IF call.type = "answer" THEN "returned" ELSE "createOffer2"]
  /\ UNCHANGED <<sockVars, startVars, tearVars, peerVars, setupVars, sinkVars,
                 ncalls, mediaVars, icVars>>

\* Lines 198-199: the second pc.createOffer() returned.
CreateOffer2Done ==
  /\ Idle /\ call.at = "createOffer2"
  /\ call' = [call EXCEPT !.at = "returned"]
  /\ UNCHANGED <<loopVars, sockVars, startVars, tearVars, peerVars, setupVars,
                 sinkVars, ncalls, mediaVars, icVars>>

\* Lines 208-209: the code of setRemoteDescription after
\* `await peerConnection.promise`: the description is applied.
Srd2 ==
  /\ Job("srd2")
  /\ SetLoop(Base)
  /\ IF prom["peerConnection"] = "rejected"
       THEN /\ call' = [call EXCEPT !.at = "failed"]
            /\ UNCHANGED pcRemote
       ELSE /\ call' = [call EXCEPT !.at = "setRemote"]
            /\ pcRemote' = call.type
  /\ UNCHANGED <<sockVars, startVars, tearVars, pcState, pcCreated, pcLocal,
                 iceGathering, closedSubs, setupVars, sinkVars, ncalls,
                 mediaVars, icVars>>

\* Line 209: pc.setRemoteDescription returned.
SetRemoteDone ==
  /\ Idle /\ call.at = "setRemote"
  /\ call' = [call EXCEPT !.at = "returned"]
  /\ UNCHANGED <<loopVars, sockVars, startVars, tearVars, peerVars, setupVars,
                 sinkVars, ncalls, mediaVars, icVars>>

\* --------------------------------------------------------- the media relay
\* An inbound packet: a header and a payload; serialize() gives its bytes.
Packets == [header : {0}, payload : {1, 2}]
serialize(pkt) == <<pkt.header, pkt.payload>>

\* Lines 90, 92, 104, 106: the arguments of rtspServer.sendTrack for a packet
\* of a track of the given kind.
sendTrack(kind, pkt, isRtcp) ==
  [chan |-> IF kind = "audio" THEN audioTrack ELSE videoTrack,
   bytes |-> serialize(pkt),
   fb |-> isRtcp]

\* A transceiver announces a track to the onTrack subscriber of doSetup
\* (lines 84 and 96): the track's handlers are subscribed; the video track's
\* once-handler (line 108) is pending.
OnTrack(kind) ==
  /\ Idle /\ xcvrs # <<>>
  /\ pcRemote # "none" /\ pcState \in {"new", "connected"}
  /\ Len(tracks) < MaxTracks
  /\ tracks' = Append(tracks, [kind |-> kind, once |-> (kind = "video")])
  /\ UNCHANGED <<loopVars, sockVars, startVars, tearVars, peerVars, setupVars,
                 sinkVars, sigVars, timers, recvLog, sinkLog, firLog, icVars>>

\* Lines 85-91 and 97-105: an RTP packet of a track arrives.  Lines 108-132:
\* the first one of a video track starts the keyframe timer and subscribes
\* its clearInterval to waitClosed(pc).
RecvRtp(t, pkt) ==
  /\ Idle /\ t \in 1..Len(tracks)
  /\ pcState = "connected"
  /\ Len(recvLog) < MaxPackets
  /\ recvLog' = Append(recvLog, [track |-> t, kind |-> tracks[t].kind,
                                 rtcp |-> FALSE, pkt |-> pkt])
  /\ sinkLog' = Append(sinkLog, sendTrack(tracks[t].kind, pkt, FALSE))
  /\ IF tracks[t].once
       THEN /\ tracks' = [tracks EXCEPT ![t].once = FALSE]
            /\ timers' = Append(timers, [armed |-> TRUE, firSequenceNumber |-> 0,
                                         track |-> t])
            /\ closedSubs' = Append(closedSubs, K("clearInterval", Len(timers) + 1))
       ELSE UNCHANGED <<tracks, timers, closedSubs>>
  /\ UNCHANGED <<loopVars, sockVars, startVars, tearVars, pcState, pcCreated,
                 pcLocal, pcRemote, iceGathering, setupVars, sinkVars, sigVars,
                 firLog, icVars>>

\* Lines 92 and 106: an RTCP packet of a track arrives.
RecvRtcp(t, pkt) ==
  /\ Idle /\ t \in 1..Len(tracks)
  /\ pcState = "connected"
  /\ Len(recvLog) < MaxPackets
  /\ recvLog' = Append(recvLog, [track |-> t, kind |-> tracks[t].kind,
                                 rtcp |-> TRUE, pkt |-> pkt])
  /\ sinkLog' = Append(sinkLog, sendTrack(tracks[t].kind, pkt, TRUE))
  /\ UNCHANGED <<loopVars, sockVars, startVars, tearVars, peerVars, setupVars,
                 sinkVars, sigVars, tracks, timers, firLog, icVars>>

\* ------------------------------------------------- the keyframe requester
\* A tick that sends firSequenceNumber without incrementing it.
TickWithoutIncrement(i) ==
  /\ Idle /\ i \in 1..Len(timers)
  /\ timers[i].armed
  /\ Len(firLog) < MaxTicks
  /\ firLog' = Append(firLog, [sequenceNumber |-> timers[i].firSequenceNumber,
                               timer |-> i, pcState |-> pcState])
  /\ UNCHANGED <<loopVars, sockVars, startVars, tearVars, peerVars, setupVars,
                 sinkVars, sigVars, tracks, timers, recvLog, sinkLog, icVars>>

\* Lines 110-131: a tick of a running timer sends a full intra request with
\* the next sequence number, and a picture loss indication.
Tick(i) ==
  /\ Idle /\ i \in 1..Len(timers)
  /\ timers[i].armed
  /\ Len(firLog) < MaxTicks
  /\ firLog' = Append(firLog, [sequenceNumber |-> timers[i].firSequenceNumber,
                               timer |-> i, pcState |-> pcState])
  /\ timers' = [timers EXCEPT ![i].firSequenceNumber = @ + 1]
  /\ UNCHANGED <<loopVars, sockVars, startVars, tearVars, peerVars, setupVars,
                 sinkVars, sigVars, tracks, recvLog, sinkLog, icVars>>

\* A reaction that leaves the timer running.
keepInterval(t) == t

\* Line 132: what the reaction to waitClosed(pc) does to the timer.
clearInterval(t) == [t EXCEPT !.armed = FALSE]

\* Line 132: waitClosed(pc).then(() => clearInterval(pictureLossInterval))
ClearInterval ==
  /\ Job("clearInterval")
  /\ SetLoop(Base)
  /\ timers' = [timers EXCEPT ![Head(mq).a] = clearInterval(@)]
  /\ UNCHANGED <<sockVars, startVars, tearVars, peerVars, setupVars, sinkVars,
                 sigVars, tracks, recvLog, sinkLog, firLog, icVars>>

\* ------------------------------------------------------------ the intercom
\* isPeerConnectionAlive(pc)
isPeerConnectionAlive == pcState # "closed"

\* The checks of startIntercom without the check of the sender.
startIntercomErrorAliveOnly ==
  IF ~isPeerConnectionAlive THEN "peer connection is closed" ELSE ""

\* Lines 230-234: the two checks of startIntercom: the error thrown, or "".
startIntercomError ==
  IF ~isPeerConnectionAlive THEN "peer connection is closed"
  ELSE IF track # "yes" THEN "peer connection does not support two way audio"
  ELSE ""

\* Lines 229-237: startIntercom up to `await convertMediaObjectToJSON`.
startIntercom ==
  /\ Idle /\ prom["intercom"] = "resolved"
  /\ Len(icCalls) < MaxStartCalls
  /\ icCalls' = Append(icCalls,
       [at |-> IF startIntercomError = "" THEN "convert" ELSE "failed",
        error |-> startIntercomError, proc |-> 0,
        \* for the properties: every earlier call had returned
        inSuccession |-> \A j \in DOMAIN icCalls :
                          icCalls[j].at \in {"done", "failed"}])
  /\ UNCHANGED <<loopVars, sockVars, startVars, tearVars, peerVars, setupVars,
                 sinkVars, sigVars, mediaVars, procs, alive, destroyProcess,
                 kills, playback, playbackMsgs, stopRuns, nstops>>

\* Lines 237-239: the media object is converted; startRtpForwarderProcess is
\* called.
ConvertDone(i) ==
  /\ Idle /\ i \in 1..Len(icCalls) /\ icCalls[i].at = "convert"
  /\ icCalls' = [icCalls EXCEPT ![i].at = "spawn"]
  /\ UNCHANGED <<loopVars, sockVars, startVars, tearVars, peerVars, setupVars,
                 sinkVars, sigVars, mediaVars, procs, alive, destroyProcess,
                 kills, playback, playbackMsgs, stopRuns, nstops>>

\* Line 239: startRtpForwarderProcess has spawned the forwarder process and
\* returns; the code after the await is queued.
SpawnDone(i) ==
  /\ Idle /\ i \in 1..Len(icCalls) /\ icCalls[i].at = "spawn"
  /\ procs' = procs + 1
  /\ alive' = alive \cup {procs + 1}
  /\ kills' = Append(kills, 0)
  /\ icCalls' = [icCalls EXCEPT ![i].at = "spawned", ![i].proc = procs + 1]
  /\ mq' = Append(mq, K("icInstall", i))
  /\ UNCHANGED <<prom, waiters, sockVars, startVars, tearVars, peerVars,
                 setupVars, sinkVars, sigVars, mediaVars, destroyProcess,
                 playback, playbackMsgs, stopRuns, nstops>>

\* Line 257: destroyProcess?.(): the kill function of the process last
\* installed is invoked, if one was ever installed.
killsAfterStop ==
  IF destroyProcess # 0 THEN [kills EXCEPT ![destroyProcess] = @ + 1] ELSE kills

\* Lines 256-263: the body of stopIntercom: the process is killed and
\* setPlayback({audio: false}) is sent.
stopIntercom ==
  /\ kills' = killsAfterStop
  /\ alive' = alive \ {destroyProcess}
  /\ playback' = "off"
  /\ playbackMsgs' = playbackMsgs + 1
  /\ stopRuns' = stopRuns + 1

\* The code after the spawn without its call of stopIntercom.
IcInstallWithoutStop ==
  /\ Job("icInstall")
  /\ LET i == Head(mq).a
     IN  /\ destroyProcess' = icCalls[i].proc
         /\ icCalls' = [icCalls EXCEPT ![i].at = "awaitSc"]
         /\ SetLoop(Then(Base, "sessionControl", K("icPlayback", i)))
  /\ UNCHANGED <<sockVars, startVars, tearVars, peerVars, setupVars, sinkVars,
                 sigVars, mediaVars, procs, nstops, kills, alive, playback,
                 playbackMsgs, stopRuns>>

\* Lines 246-250: the code of startIntercom after the process was spawned:
\* stopIntercom, then the new kill function is installed.
IcInstall ==
  /\ Job("icInstall")
  /\ LET i == Head(mq).a
     IN  /\ stopIntercom
         /\ destroyProcess' = icCalls[i].proc
         /\ icCalls' = [icCalls EXCEPT ![i].at = "awaitSc"]
         /\ SetLoop(Then(Base, "sessionControl", K("icPlayback", i)))
  /\ UNCHANGED <<sockVars, startVars, tearVars, peerVars, setupVars, sinkVars,
                 sigVars, mediaVars, procs, nstops>>

\* Lines 250-254: sc.setPlayback({audio: true, video: false})
IcPlayback ==
  /\ Job("icPlayback")
  /\ SetLoop(Base)
  /\ LET i == Head(mq).a
     IN  IF prom["sessionControl"] = "resolved"
           THEN /\ playback' = "on"
                /\ playbackMsgs' = playbackMsgs + 1
                /\ icCalls' = [icCalls EXCEPT ![i].at = "done"]
           ELSE /\ icCalls' = [icCalls EXCEPT ![i].at = "failed"]
                /\ UNCHANGED <<playback, playbackMsgs>>
  /\ UNCHANGED <<sockVars, startVars, tearVars, peerVars, setupVars, sinkVars,
                 sigVars, mediaVars, procs, alive, destroyProcess, kills,
                 stopRuns, nstops>>

\* The holder of the intercom calls stopIntercom.
StopIntercomCall ==
  /\ Idle /\ prom["intercom"] = "resolved"
  /\ nstops < MaxStopCalls
  /\ nstops' = nstops + 1
  /\ stopIntercom
  /\ UNCHANGED <<loopVars, sockVars, startVars, tearVars, peerVars, setupVars,
                 sinkVars, sigVars, mediaVars, icCalls, procs, destroyProcess>>

\* Line 43: intercom => intercom.stopIntercom()
CleanupStop ==
  /\ Job("cStop")
  /\ SetLoop(Base)
  /\ IF prom["intercom"] = "resolved"
       THEN /\ fx' = [fx EXCEPT !.stopIntercom = @ + 1]
            /\ stopIntercom
       ELSE UNCHANGED <<fx, kills, alive, playback, playbackMsgs, stopRuns>>
  /\ UNCHANGED <<sockVars, startVars, cleanups, peerVars, setupVars, sinkVars,
                 sigVars, mediaVars, icCalls, procs, destroyProcess, nstops>>

\* ------------------------------------------------------ the specifications
\* The microtasks of the bridge's own lifecycle.
Lifecycle ==
  \/ RegClose \/ Start1 \/ Start3 \/ Start4 \/ StartCatch
  \/ PcClose1 \/ PcCloseSettle \/ PcCloseFinally \/ PcCatch
  \/ CleanupDestroy \/ CleanupEndSession \/ CleanupClose \/ CleanupStop

\* The events of the bridge's lifecycle.
World ==
  \/ ClientConnect \/ ClientTimeout \/ SocketClose \/ PeerClosed
  \/ SignalingReturns \/ SignalingFails \/ PeerConnected \/ ConnectFails

\* The signaling session: every call the channel can make, with
\* sendIceCandidate given (trickle) and the answers drawn from D, and the
\* steps of the calls.
Signaling(D) ==
  \/ \E type \in {"offer", "answer"} : createLocalDescription(type, TRUE)
  \/ \E d \in D : CreateAnswerDone(d)
  \/ \E d \in D : setRemoteDescription("answer", d)
  \/ \E type \in {"offer", "pranswer"} : setRemoteDescription(type, <<>>)
  \/ DoSetup2 \/ Cld2 \/ Srd2
  \/ CreateAnswerFails \/ HandlePlaybackDone \/ CreateOfferDone
  \/ SetRemoteDone

\* The calls of createLocalDescription without sendIceCandidate, which wait
\* for the ICE candidates to be gathered.
Gathering ==
  \/ \E type \in {"offer", "answer"} : createLocalDescription(type, FALSE)
  \/ SetLocalDone \/ GatheringComplete \/ Cld3 \/ CreateOffer2Done

\* A channel that only sends a local offer with trickle and applies remote
\* answers drawn from D.
LocalOffer(D) ==
  \/ createLocalDescription("offer", TRUE)
  \/ \E d \in D : setRemoteDescription("answer", d)
  \/ DoSetup2 \/ Cld2 \/ Srd2
  \/ HandlePlaybackDone \/ CreateOfferDone \/ SetRemoteDone

Announce == \E kind \in {"audio", "video"} : OnTrack(kind)

Relay ==
  \/ \E t \in 1..MaxTracks, pkt \in Packets : RecvRtp(t, pkt)
  \/ \E t \in 1..MaxTracks, pkt \in Packets : RecvRtcp(t, pkt)

Keyframes ==
  \/ \E i \in 1..MaxTracks : Tick(i)
  \/ ClearInterval

Intercom ==
  \/ startIntercom
  \/ \E i \in 1..MaxStartCalls : ConvertDone(i)
  \/ \E i \in 1..MaxStartCalls : SpawnDone(i)
  \/ IcInstall \/ IcPlayback \/ StopIntercomCall

\* Every answer of at most MaxSections media sections.
Answers == Descriptions(MaxSections)

\* The whole program.
Next ==
  Lifecycle \/ World \/ Signaling(Answers) \/ Gathering \/ Announce \/ Relay
    \/ Keyframes \/ Intercom

Spec == Init /\ [][Next]_vars

\* The state space of Spec is the product of its parts.  The specifications
\* below keep the bridge's lifecycle whole and restrict the outside world to
\* the part a group of properties is about.

\* Signaling and sink setup: every call, every answer; no media, no intercom.
NextSetup == Lifecycle \/ World \/ Signaling(Answers)

SpecSetup == Init /\ [][NextSetup]_vars

\* The intercom, behind a channel that negotiates by local offer and one
\* well-formed answer.
GoodAnswers == {<<"audio", "video">>}

NextIntercom == Lifecycle \/ World \/ LocalOffer(GoodAnswers) \/ Intercom

SpecIntercom == Init /\ [][NextIntercom]_vars

\* The media relay, behind a channel that negotiates by local offer and may
\* send a further answer.
RelayAnswers == {<<"audio", "video">>, <<"application", "audio">>}

NextRelay == Lifecycle \/ World \/ LocalOffer(RelayAnswers) \/ Announce \/ Relay

SpecRelay == Init /\ [][NextRelay]_vars

\* The keyframe requester.
NextKeyframes ==
  \/ Lifecycle \/ World \/ LocalOffer(GoodAnswers) \/ Announce
  \/ \E t \in 1..MaxTracks, pkt \in Packets : RecvRtp(t, pkt)
  \/ Keyframes

SpecKeyframes == Init /\ [][NextKeyframes]_vars

\* ------------------------------------------------------------ properties
Max(S) == CHOOSE x \in S : \A y \in S : y <= x

\* C1: each teardown effect (client.destroy(), sc.endSession(), pc.close(),
\* intercom.stopIntercom()) is performed at most once, however many terminal
\* events fire.
C1_TeardownEffectsOnce ==
  /\ fx.destroy <= 1
  /\ fx.endSession <= 1
  /\ fx.close <= 1
  /\ fx.stopIntercom <= 1

\* Every startIntercom call was made after the calls before it had returned.
InSuccession == \A i \in DOMAIN icCalls : icCalls[i].inSuccession

AwaitingInstall ==
  {icCalls[i].proc : i \in {j \in DOMAIN icCalls : icCalls[j].at = "spawned"}}
Installed ==
  {icCalls[i].proc :
     i \in {j \in DOMAIN icCalls : icCalls[j].at \in {"awaitSc", "done"}}}

C3_IdleStopDoesNothing ==
  [][(nstops' = nstops + 1 /\ alive = {})
       => (kills' = kills /\ playbackMsgs' = playbackMsgs)]_vars

\* A step in which handleRtspSetup runs (from createLocalDescription after
\* createAnswer, or from setRemoteDescription), up to its await or its throw.
SinkSetupStep ==
  \/ /\ call.at = "createAnswer" /\ pcRemote = "offer"
     /\ call'.at \in {"handlePlayback", "failed"}
  \/ /\ ncalls' = ncalls + 1
     /\ call'.op = "srd" /\ call'.type # "offer"

\* The same, given an answer: the description is assigned to rtspServer.sdp.
AnswerSetupStep ==
  /\ SinkSetupStep
  /\ call'.type = "answer"

HasSection(d, t) == \E i \in DOMAIN d : d[i] = t
OneSection(d, t) == Cardinality({i \in DOMAIN d : d[i] = t}) = 1
SectionOf(d, t) == CHOOSE i \in DOMAIN d : d[i] = t

\* C4 as claimed: when sink setup fails on an answer without a video section,
\* no relay subscription exists on the peer session.
C4_NoSubscriptionsOnFailure ==
  [][(AnswerSetupStep /\ ~HasSection(sdp', "video"))
       => (call'.at = "failed" /\ xcvrs' = <<>> /\ tracks' = <<>>)]_vars

\* C4 as amended: sink setup fails on an answer without a video section, and
\* the failing setup creates no relay subscription, does not call
\* handlePlayback and does not apply the answer to the peer connection; the
\* onTrack subscriptions doSetup made before stay.
C4_FailureCreatesNoSubscriptions ==
  [][(AnswerSetupStep /\ ~HasSection(sdp', "video"))
       => /\ call'.at = "failed"
          /\ UNCHANGED <<xcvrs, tracks, playbacks, pcLocal, pcRemote>>]_vars

\* A setup failed on an answer without video, after doSetup had subscribed.
C4_Witness ==
  /\ call.at = "failed" /\ call.type = "answer"
  /\ sdp = <<"audio">> /\ audioTrack = 1 /\ videoTrack = 0
  /\ xcvrs # <<>> /\ playbacks = 0

\* C5: given an answer with exactly one audio and exactly one video section,
\* sink setup does not throw and binds audioTrack to the control of the audio
\* section and videoTrack to the control of the video section.
C5_BindingsResolve ==
  [][(AnswerSetupStep /\ OneSection(sdp', "audio") /\ OneSection(sdp', "video"))
       => /\ call'.at = "handlePlayback"
          /\ audioTrack' = parseSdp(sdp')[SectionOf(sdp', "audio")].control
          /\ videoTrack' = parseSdp(sdp')[SectionOf(sdp', "video")].control
          /\ playbacks' = playbacks + 1]_vars

\* Sink setup ran on an answer with another section first and video before
\* audio.
C5_Witness ==
  /\ call.at = "handlePlayback"
  /\ sdp = <<"application", "video", "audio">>
  /\ audioTrack = 3 /\ videoTrack = 2

\* C8: once a sink setup has succeeded, the sink's description and the
\* bindings are not assigned again and handlePlayback is not called again.
C8_SetupOnlyOnce ==
  [][playbacks >= 1 => UNCHANGED <<sdp, audioTrack, videoTrack, playbacks>>]_vars

\* C9: sink setup with a description that is not an answer throws and leaves
\* the sink as it was: no description assigned, no binding set, no
\* handlePlayback, and the description never reaches the peer connection.
C9_NonAnswerRejected ==
  /\ [](pcRemote \in {"none", "offer", "answer"})
  /\ []((call.op = "srd" /\ call.type \notin {"offer", "answer"})
          => call.at = "failed")
  /\ [][(SinkSetupStep /\ call'.type # "answer")
          => /\ call'.at = "failed"
             /\ UNCHANGED <<sdp, audioTrack, videoTrack, playbacks, pcLocal,
                            pcRemote, loopVars>>]_vars

\* A setRemoteDescription with a pranswer failed after a setup had succeeded.
C9_Witness ==
  /\ call.op = "srd" /\ call.type = "pranswer" /\ call.at = "failed"
  /\ playbacks = 1 /\ sdp # <<>>

\* C10: startIntercom throws when the peer connection is not alive and when
\* the audio sender cannot send; the failed call spawns no process, leaves
\* destroyProcess and the running pipeline alone and sends no setPlayback.
C10_StartIntercomGuards ==
  /\ [](\A i \in DOMAIN icCalls :
          icCalls[i].at = "failed" => icCalls[i].proc = 0)
  /\ [][(Len(icCalls') = Len(icCalls) + 1 /\ (pcState = "closed" \/ track = "no"))
          => /\ icCalls'[Len(icCalls')].at = "failed"
             /\ icCalls'[Len(icCalls')].error # ""
             /\ UNCHANGED <<procs, alive, destroyProcess, kills, playback,
                            playbackMsgs, loopVars>>]_vars

\* A startIntercom call failed on a closed peer connection while the pipeline
\* of an earlier call was alive.
C10_Witness ==
  /\ Len(icCalls) = 2
  /\ icCalls[2].at = "failed"
  /\ icCalls[2].error = "peer connection is closed"
  /\ alive = {1} /\ destroyProcess = 1

\* C6: a keyframe timer is started only by the first RTP packet of a video
\* track, and no full intra request (nor the picture loss indication sent
\* with it) is sent once the peer connection is closed: when the close has
\* been handled, no timer is running.
C6_NoKeyframeRequestAfterClose ==
  /\ \A i \in DOMAIN firLog : firLog[i].pcState # "closed"
  /\ (pcState = "closed" /\ Idle) => \A i \in DOMAIN timers : ~timers[i].armed
  /\ \A i \in DOMAIN timers :
       /\ tracks[timers[i].track].kind = "video"
       /\ ~tracks[timers[i].track].once
       /\ \E j \in DOMAIN recvLog :
            recvLog[j].track = timers[i].track /\ ~recvLog[j].rtcp
  /\ \A i, j \in DOMAIN timers : timers[i].track = timers[j].track => i = j

\* A timer ticked, then the peer connection closed and the timer was cleared.
C6_Witness ==
  /\ pcState = "closed" /\ Idle
  /\ firLog # <<>>
  /\ timers # <<>> /\ \A i \in DOMAIN timers : ~timers[i].armed

\* The binding of a kind of track, and that of the other kind.
Binding(kind) == IF kind = "audio" THEN audioTrack ELSE videoTrack
OtherBinding(kind) == IF kind = "audio" THEN videoTrack ELSE audioTrack

\* C7: the units handed to sendTrack are the packets received, in order, with
\* their bytes, RTP tagged as data and RTCP as feedback, each on the channel
\* of its own track and never on the channel of the other kind.
C7_RelayExact ==
  /\ [](/\ Len(sinkLog) = Len(recvLog)
        /\ \A i \in DOMAIN sinkLog :
             /\ sinkLog[i].bytes = serialize(recvLog[i].pkt)
             /\ sinkLog[i].fb = recvLog[i].rtcp)
  /\ [][Len(recvLog') = Len(recvLog) + 1
          => LET unit == sinkLog'[Len(sinkLog')]
                 kind == recvLog'[Len(recvLog')].kind
             IN  /\ unit.chan = Binding(kind)
                 /\ unit.chan # OtherBinding(kind)]_vars

\* ------------------------------------------------- teardown and settlement
\* The promise reactions: the event loop runs every queued microtask; nothing
\* obliges the outside world to act.
Microtasks == Lifecycle \/ DoSetup2 \/ Cld2 \/ Srd2

\* The bridge's lifecycle behind a channel that negotiates by local offer.
NextTeardown == Lifecycle \/ World \/ LocalOffer(GoodAnswers)

SpecTeardown == Init /\ [][NextTeardown]_vars /\ WF_vars(Microtasks)

Deferreds == {"sessionControl", "peerConnection", "intercom"}

\* C11: once cleanup has run, every Deferred that is still pending is
\* eventually settled (rejected), so that no awaiter stays pending forever.
C11_PendingEventuallyRejected ==
  \A d \in Deferreds :
    (cleanups >= 1 /\ prom[d] = "pending") ~> (prom[d] # "pending")

\* C12: when the start task has rejected and the reactions to that have run,
\* no Deferred is pending and cleanup has been invoked.
C12_StartFailureTearsDown ==
  (startAt = "failed" /\ Idle)
    => /\ \A d \in Deferreds : prom[d] # "pending"
       /\ cleanups >= 1

\* ------------------------------------------------------ offers and doSetup
\* A reaction with the label is queued or waits for its promise.
Queued(l) ==
  \/ \E i \in DOMAIN mq : mq[i].k = l
  \/ \E p \in Promises : \E i \in DOMAIN waiters[p] : waiters[p][i].k = l

\* A step in which createLocalDescription goes on to pc.createOffer(), or
\* setRemoteDescription applies a remote offer.
OfferStep ==
  /\ call.at = "awaitPc" /\ call.type = "offer"
  /\ call'.at \in {"createOffer", "setRemote"}

\* C13: when the offer is generated or the remote offer is applied, every
\* doSetup run started so far has attached its transceivers: none of them
\* still waits for the peer connection.
C13_TransceiversBeforeOffer ==
  [][OfferStep
       => /\ xcvrs # <<>>
          /\ audioTransceiver = Len(xcvrs)
          /\ ~Queued("doSetup2")]_vars

\* A second offer reached createOffer, with the transceivers of both doSetup
\* runs attached.
C13_Witness ==
  /\ call.op = "cld" /\ call.at = "createOffer"
  /\ ncalls = 2 /\ Len(xcvrs) = 2

\* ---------------------------------------------------- candidate gathering
\* Both signaling orders with one well-formed answer, with and without
\* sendIceCandidate.
NextGathering == Lifecycle \/ World \/ Signaling(GoodAnswers) \/ Gathering

SpecGathering == Init /\ [][NextGathering]_vars

\* A step in which createLocalDescription returns its description.
CldReturns ==
  /\ call.op = "cld"
  /\ call.at # "returned" /\ call'.at = "returned"

\* C14: without sendIceCandidate, createLocalDescription returns only after
\* `await set` and with the gathering state complete, and a call that waits
\* for gatheringPromise with gathering complete has its continuation queued
\* (the event was not missed); with sendIceCandidate it returns right after
\* setLocalDescription was started.
C14_NonTrickleWaitsForGathering ==
  /\ []((call.op = "cld" /\ ~call.trickle /\ call.at = "returned")
          => (iceGathering = "complete" /\ pcLocal = call.type))
  /\ []((call.op = "cld" /\ call.at = "gathering" /\ iceGathering = "complete")
          => Queued("cld3"))
  /\ [][CldReturns
          => IF call.trickle
               THEN /\ call.at \in {"handlePlayback", "createOffer"}
                    /\ UNCHANGED iceGathering
               ELSE /\ call.at \in {"gathering", "createOffer2"}
                    /\ call.gathered]_vars

\* The first call, without sendIceCandidate, returned: gathering completed
\* while the call was in progress.
C14_Witness ==
  /\ ncalls = 1 /\ call.op = "cld" /\ ~call.trickle
  /\ call.at = "returned" /\ iceGathering = "complete"

\* ------------------------------------------------- one peer connection
\* C15: at most one peer connection is constructed, and once the
\* peerConnection Deferred is settled no call constructs another one or
\* changes the settlement.
C15_OnePeerConnection ==
  /\ [](pcCreated <= 1)
  /\ [][prom["peerConnection"] # "pending"
          => /\ prom'["peerConnection"] = prom["peerConnection"]
             /\ pcCreated' = pcCreated]_vars

\* doSetup ran for two offers on the one peer connection.
C15_Witness ==
  /\ pcCreated = 1 /\ prom["peerConnection"] = "resolved"
  /\ ncalls >= 2 /\ Len(xcvrs) = 2 /\ pcRemote = "offer"

EarlierOfTimer(i) == {j \in 1..(i - 1) : firLog[j].timer = firLog[i].timer}

NextFlow ==
  Lifecycle \/ World \/ Signaling(RelayAnswers) \/ Announce \/ Relay

SpecFlow == Init /\ [][NextFlow]_vars

\* A step in which an answer is applied to the peer connection:
\* pc.setLocalDescription(answer) or pc.setRemoteDescription(answer).
AnswerApplied ==
  \/ pcLocal' = "answer" /\ pcLocal # "answer"
  \/ pcRemote' = "answer" /\ pcRemote # "answer"

\* C17: when an answer is applied, sink setup is complete: the description is
\* assigned, both bindings are resolved and the await of handlePlayback is
\* over; so whenever a unit was handed to sendTrack the setup was complete,
\* and every unit carries a defined channel.
C17_SetupBeforeMedia ==
  /\ [](sinkLog # <<>> => (playbackStarted >= 1 /\ sdp # <<>>))
  /\ [](\A i \in DOMAIN sinkLog : sinkLog[i].chan # 0)
  /\ [][AnswerApplied
          => /\ playbackStarted' >= 1
             /\ sdp # <<>> /\ audioTrack # 0 /\ videoTrack # 0]_vars

\* Remote offer, local answer: a packet of a track was relayed.
C17_Witness ==
  /\ pcRemote = "offer" /\ pcLocal = "answer"
  /\ sinkLog # <<>> /\ playbackStarted = 1

\* --------------------------------------------- the intercom and teardown
\* No startIntercom call is suspended.
NoCallInFlight ==
  \A i \in DOMAIN icCalls : icCalls[i].at \in {"done", "failed"}

\* C18: once cleanup has stopped the intercom and every startIntercom call
\* has finished, no forwarder process is alive.
C18_NoProcessOutlivesTeardown ==
  (fx.stopIntercom >= 1 /\ Idle /\ NoCallInFlight) => alive = {}

\* The holder's stopIntercom call runs as a promise reaction of the holder
\* that was queued ahead of the continuation of line 250: between the
\* installation of the kill function (line 248) and setPlayback (line 251).
StopIntercomAtAwait ==
  /\ mq # <<>> /\ Head(mq).k = "icPlayback"
  /\ prom["intercom"] = "resolved"
  /\ nstops < MaxStopCalls
  /\ nstops' = nstops + 1
  /\ stopIntercom
  /\ UNCHANGED <<loopVars, sockVars, startVars, tearVars, peerVars, setupVars,
                 sinkVars, sigVars, mediaVars, icCalls, procs, destroyProcess>>

\* The intercom with a holder that calls stopIntercom from events and from
\* promise reactions.
NextIntercomAwait == NextIntercom \/ StopIntercomAtAwait

SpecIntercomAwait == Init /\ [][NextIntercomAwait]_vars

\* C19: when no startIntercom or stopIntercom call is in flight, the playback
\* state last reported to session control says audio: true exactly when a
\* forwarder process is alive.
C19_PlaybackAgrees ==
  (Idle /\ NoCallInFlight) => ((playback = "on") <=> (alive # {}))

\* --------------------------------------- resources created after teardown
\* C20: once cleanup has run and the promise reactions have run, a peer
\* connection that exists is closed and a session control that was obtained
\* is ended, also when they came into being after cleanup ran.
C20_LatePeerConnectionClosed ==
  /\ (cleanups >= 1 /\ Idle /\ prom["peerConnection"] = "resolved")
       => (pcState = "closed" /\ fx.close >= 1)
  /\ (cleanups >= 1 /\ Idle /\ prom["sessionControl"] = "resolved")
       => fx.endSession >= 1

\* cleanup ran before the first offer; the offer's call constructed the peer
\* connection, and the reaction cleanup had left on the Deferred closed it
\* while the call still waits for its continuation.
C20_Witness ==
  /\ cleanups = 1 /\ socket = "closed"
  /\ ncalls = 1 /\ call.at = "awaitPc" /\ pcCreated = 1
  /\ pcState = "closed" /\ fx.close = 1

====
